---- MODULE Spec2Model ----
(***************************************************************************)
(* Pixel-level transforms of albumentations/pytorch/augmentations/         *)
(* image_only/functional.py: clip, round_opencv, from_float, to_float,     *)
(* cutout, rgb_to_hls, hls_to_rgb, add_snow, normalize.                    *)
(*                                                                         *)
(* A tensor element is an exact binary number [neg, int, frac]: a sign, an *)
(* integer part and the bits after the binary point.  Every floating-point *)
(* operation computes the exact result and rounds it to the precision of   *)
(* the tensor's dtype (24 significant bits for float32, 53 for float64,    *)
(* round-to-nearest-even), as IEEE-754 arithmetic does.  Magnitudes stay   *)
(* far below 2^31, so exponent range and int32 width never come into play. *)
(***************************************************************************)
EXTENDS Integers, Sequences, FiniteSets, Bags, TLC

----------------------------------------------------------------------------
(* Binary numbers                                                          *)

Pow2(k) == 2 ^ k

\* The number of bits of the natural n < 2^31.
BitLen(n) == CHOOSE k \in 0..31 : (k = 0 \/ n >= 2 ^ (k - 1)) /\ (k = 31 \/ n < 2 ^ k)

\* A bit string without its trailing zeros.
Trim(bits) ==
    IF \A i \in 1..Len(bits) : bits[i] = 0 THEN <<>>
    ELSE SubSeq(bits, 1, CHOOSE i \in 1..Len(bits) :
                             bits[i] = 1 /\ \A j \in (i + 1)..Len(bits) : bits[j] = 0)

LeadZeros(bits) ==
    IF \A i \in 1..Len(bits) : bits[i] = 0 THEN Len(bits)
    ELSE (CHOOSE i \in 1..Len(bits) :
              bits[i] = 1 /\ \A j \in 1..(i - 1) : bits[j] = 0) - 1

Zeros(k) == [i \in 1..k |-> 0]

\* The k low bits of the natural n, most significant first.
LowBits(n, k) == [i \in 1..k |-> (n \div Pow2(k - i)) % 2]

\* The natural a bit string of at most 30 bits spells: the sum of the powers
\* of two at its one bits.
Val(bits) ==
    BagCardinality([i \in {j \in 1..Len(bits) : bits[j] = 1} |-> 2 ^ (Len(bits) - i)])

\* Bit strings are worked on 20 bits at a time (a chunk times a factor below
\* 2^11 stays below 2^31): First is the leading chunk (or what is left of the
\* string), Rest what follows it.  Take and Drop cut at any width.
Take(bits, w) == SubSeq(bits, 1, IF Len(bits) < w THEN Len(bits) ELSE w)
Drop(bits, w) == SubSeq(bits, (IF Len(bits) < w THEN Len(bits) ELSE w) + 1, Len(bits))
First(bits) == Take(bits, 20)
Rest(bits) == Drop(bits, 20)

\* Canonical form: no trailing zero bit, and zero is not negative.
Mk(neg, int, frac) ==
    IF frac = <<>> THEN [neg |-> neg /\ int # 0, int |-> int, frac |-> <<>>]
    ELSE IF frac[Len(frac)] = 1 THEN [neg |-> neg, int |-> int, frac |-> frac]
    ELSE [neg |-> neg /\ ~(int = 0 /\ Trim(frac) = <<>>), int |-> int,
          frac |-> Trim(frac)]

Zero == Mk(FALSE, 0, <<>>)
Half == Mk(FALSE, 0, <<1>>)
IntNum(n) == IF n < 0 THEN Mk(TRUE, -n, <<>>) ELSE Mk(FALSE, n, <<>>)
\* n / 2^k for an integer n and k >= 0.
Dyadic(n, k) ==
    LET a == IF n < 0 THEN -n ELSE n
    IN  Mk(n < 0, a \div Pow2(k), LowBits(a % Pow2(k), k))
Neg(a) == Mk(~a.neg, a.int, a.frac)

\* One chunk of n bits of a carry chain: the chunk's total t and the result
\* <<carry, bits>> of the chunks after it make <<carry out, bits>>.
Chunk(n, t, tail) == <<t \div Pow2(n), LowBits(t % Pow2(n), n) \o tail>>
BorrowChunk(n, t, tail) == <<IF t < 0 THEN 1 ELSE 0, LowBits(t % Pow2(n), n) \o tail>>

\* bits + one unit in the last place: <<carry out, bits>>.
RECURSIVE IncBits(_)
IncStep(bits, r) == Chunk(Len(First(bits)), Val(First(bits)) + r[1], r[2])
IncBits(bits) ==
    IF bits = <<>> THEN <<1, <<>>>> ELSE IncStep(bits, IncBits(Rest(bits)))

\* x + y for bit strings of one length: <<carry out, bits>>.
RECURSIVE AddBits(_, _)
AddStep(x, y, r) ==
    Chunk(Len(First(x)), Val(First(x)) + Val(First(y)) + r[1], r[2])
AddBits(x, y) ==
    IF x = <<>> THEN <<0, <<>>>> ELSE AddStep(x, y, AddBits(Rest(x), Rest(y)))

\* x - y for bit strings of one length: <<borrow out, bits>>.
RECURSIVE SubBits(_, _)
SubStep(x, y, r) ==
    BorrowChunk(Len(First(x)), Val(First(x)) - Val(First(y)) - r[1], r[2])
SubBits(x, y) ==
    IF x = <<>> THEN <<0, <<>>>> ELSE SubStep(x, y, SubBits(Rest(x), Rest(y)))

\* bits * k: <<carry out, bits>>.
RECURSIVE MulBits(_, _)
MulStep(bits, k, r) == Chunk(Len(First(bits)), Val(First(bits)) * k + r[1], r[2])
MulBits(bits, k) ==
    IF bits = <<>> THEN <<0, <<>>>> ELSE MulStep(bits, k, MulBits(Rest(bits), k))

RECURSIVE LessBits(_, _)
LessBits(x, y) ==
    IF x = <<>> THEN FALSE
    ELSE IF First(x) # First(y) THEN Val(First(x)) < Val(First(y))
    ELSE LessBits(Rest(x), Rest(y))

Pad(bits, n) == bits \o Zeros(n - Len(bits))
MaxLen(a, b) == IF Len(a.frac) > Len(b.frac) THEN Len(a.frac) ELSE Len(b.frac)

LessFrac(a, b, n) == LessBits(Pad(a.frac, n), Pad(b.frac, n))
LessMag(a, b) ==
    \/ a.int < b.int
    \/ a.int = b.int /\ LessFrac(a, b, MaxLen(a, b))

\* a < b
Less(a, b) ==
    IF a.neg /\ ~b.neg THEN TRUE
    ELSE IF ~a.neg /\ b.neg THEN FALSE
    ELSE IF a.neg THEN LessMag(b, a)
    ELSE LessMag(a, b)

\* The number of an integer part and the <<carry, bits>> or <<borrow, bits>> of
\* its fraction.
Carry(neg, int, s) == Mk(neg, int + s[1], s[2])
Borrow(neg, int, d) == Mk(neg, int - d[1], d[2])

\* |a| + |b| and |a| - |b| (for |a| >= |b|), with the sign of a.
AddMag(a, b, n) == Carry(a.neg, a.int + b.int, AddBits(Pad(a.frac, n), Pad(b.frac, n)))
SubMag(a, b, n) == Borrow(a.neg, a.int - b.int, SubBits(Pad(a.frac, n), Pad(b.frac, n)))
SubPair(pair) == SubMag(pair[1], pair[2], MaxLen(pair[1], pair[2]))

\* Exact sum of two numbers.
AddExact(a, b) ==
    IF a.neg = b.neg THEN AddMag(a, b, MaxLen(a, b))
    ELSE SubPair(IF LessMag(a, b) THEN <<b, a>> ELSE <<a, b>>)

\* Exact product with a natural k.
MulExact(a, k) == Carry(a.neg, a.int * k, MulBits(a.frac, k))

\* Exact a / 2^j.
ShiftR(a, j) ==
    IF j <= 30
    THEN Mk(a.neg, a.int \div Pow2(j), LowBits(a.int % Pow2(j), j) \o a.frac)
    ELSE Mk(a.neg, 0, Zeros(j - 31) \o LowBits(a.int, 31) \o a.frac)

\* Precision (significant bits) of a floating dtype; 0 for the integer dtypes.
Prec(kind) ==
    CASE kind = "float32" -> 24
      [] kind = "float64" -> 53
      [] OTHER -> 0

\* Round to p significant bits, ties to even.
RoundP(a, p) ==
    LET ib == BitLen(a.int)
    IN  IF a.frac = <<>> /\ ib <= p THEN a
        ELSE IF ib > p
        THEN LET q  == Pow2(ib - p)
                 lo == a.int % q
                 hi == a.int - lo
                 up == \/ 2 * lo > q
                       \/ 2 * lo = q /\ (a.frac # <<>> \/ (hi \div q) % 2 = 1)
             IN  Mk(a.neg, IF up THEN hi + q ELSE hi, <<>>)
        ELSE LET k == IF ib > 0 THEN p - ib ELSE LeadZeros(a.frac) + p
             IN  IF Len(a.frac) <= k THEN a
                 ELSE LET kept == SubSeq(a.frac, 1, k)
                          last == IF k > 0 THEN kept[k] ELSE a.int % 2
                          up   == /\ a.frac[k + 1] = 1
                                  /\ (Len(a.frac) > k + 1 \/ last = 1)
                      IN  IF up THEN Carry(a.neg, a.int, IncBits(kept))
                          ELSE Mk(a.neg, a.int, kept)

\* Long division by the natural d < 2^11, a chunk at a time: the quotient's bits
\* after the point, while n more bits are wanted from the first significant
\* one; a final 1 stands for a non-zero rest (it only tells the rounding that
\* the quotient is inexact).
RECURSIVE DivBits(_, _, _, _, _)
DivChunk(q, r, inp, d, n, sig) ==
    LowBits(q, 20) \o
    DivBits(r, Rest(inp), d,
            IF sig THEN n - 20 ELSE IF q > 0 THEN n - BitLen(q) ELSE n,
            sig \/ q > 0)
DivStep(r2, inp, d, n, sig) == DivChunk(r2 \div d, r2 % d, inp, d, n, sig)
DivBits(r, inp, d, n, sig) ==
    IF r = 0 /\ inp = <<>> THEN <<>>
    ELSE IF n <= 0 THEN <<1>>
    ELSE DivStep(Pow2(20) * r + Val(Pad(First(inp), 20)), inp, d, n, sig)

\* Exact product of two numbers: a whole number times the other one, or a
\* times b's integer part plus a times every 10 bits of b's fraction, shifted
\* to their place.
RECURSIVE SumShifts(_, _, _)
SumShift(a, bits, j, n) ==
    AddExact(ShiftR(MulExact(a, Val(Take(bits, 10))), j + n),
             SumShifts(a, Drop(bits, 10), j + n))
SumShifts(a, bits, j) ==
    IF bits = <<>> THEN Zero ELSE SumShift(a, bits, j, Len(Take(bits, 10)))
Signed(neg, r) == Mk(neg, r.int, r.frac)
MulNum(a, b) ==
    Signed(a.neg # b.neg,
           IF b.frac = <<>> THEN MulExact(a, b.int)
           ELSE IF a.frac = <<>> THEN MulExact(b, a.int)
           ELSE AddExact(MulExact(a, b.int), SumShifts(a, b.frac, 0)))

\* fl(a + b), fl(a - b), fl(a * b), fl(a / d) in precision p (d a natural).
FAdd(a, b, p) == RoundP(AddExact(a, b), p)
FSub(a, b, p) == FAdd(a, Neg(b), p)
FMul(a, b, p) == RoundP(MulNum(a, b), p)
Quotient(a, q, d, p) ==
    RoundP(Mk(a.neg, q,
              DivBits(a.int % d, a.frac, d,
                      IF q > 0 THEN p + 1 - BitLen(q) ELSE p + 1, q > 0)), p)
FDiv(a, d, p) == Quotient(a, a.int \div d, d, p)

\* Truncation toward zero, as a signed integer.
Trunc(a) == IF a.neg THEN -a.int ELSE a.int

MaxNum(a, b) == IF Less(a, b) THEN b ELSE a
MinNum(a, b) == IF Less(b, a) THEN b ELSE a

----------------------------------------------------------------------------
(* Tensors                                                                 *)

\* The dtypes the module names: three registered ones and int32, which
\* round_opencv produces and the registry does not hold.
Kinds == {"uint8", "float32", "float64", "int32"}
FloatKinds == {"float32", "float64"}

MAX_VALUES_BY_DTYPE == [k \in {"uint8", "float32", "float64"} |->
                            IF k = "uint8" THEN 255 ELSE 1]

\* An image is a (channel, height, width) tensor; indices start at 0.
Chan == 3
Rows == 2
Cols == 2
Idx == (0..(Chan - 1)) \X (0..(Rows - 1)) \X (0..(Cols - 1))

NoBuf == [kind |-> "none", data |-> <<>>]
\* A table of values: comparing it has every entry computed, once.
Table(t) == IF t = t THEN t ELSE t
\* An operator's argument is computed once, when the operator first needs it:
\* the steps of a function body are operators that take the tensor the step
\* before made, and compare it with itself to have it computed before they go on.
Tensor(kind, f(_)) == [kind |-> kind, data |-> Table([i \in Idx |-> f(i)])]

\* tensor.type(kind) / tensor.to(kind) of one element: a float is truncated
\* toward zero on its way to an integer dtype (uint8 keeps the low 8 bits)
\* and rounded on its way to a floating one.
Cast(a, kind) ==
    CASE kind = "uint8" -> IntNum(Trunc(a) % 256)
      [] kind = "int32" -> IntNum(Trunc(a))
      [] OTHER -> RoundP(a, Prec(kind))

\* max_value=None: no maximum was passed.
None == -1

Ok(buf) == [err |-> "none", buf |-> buf]
Fail(e) == [err |-> e, buf |-> NoBuf]

----------------------------------------------------------------------------
(* The functions of functional.py                                          *)

\* torch.clamp(x, 0, maxval): min(max(x, 0), maxval); ClampAbove is the clamp
\* without its lower end.
ClampAbove(a, maxval) == MinNum(a, IntNum(maxval))
Clamp(a, maxval) == MinNum(MaxNum(a, Zero), IntNum(maxval))

ClipElem(a, dtype, maxval) == Cast(Clamp(a, maxval), dtype)
clip(img, dtype, maxval) ==
    Tensor(dtype, LAMBDA i : ClipElem(img.data[i], dtype, maxval))

\* @clipped: the wrapped function's result, clipped to the argument's dtype.
clipped(result, img) ==
    CASE result = result ->
        clip(result, img.kind,
             IF img.kind \in DOMAIN MAX_VALUES_BY_DTYPE
             THEN MAX_VALUES_BY_DTYPE[img.kind] ELSE 1)

\* round_opencv, one element a of a tensor of precision p.  int_part is a
\* float32 whatever the argument is; the difference img - int_part is taken in
\* the wider of the two precisions.
IntPart(a) == RoundP(IntNum(Trunc(a)), Prec("float32"))
Wide(p) == IF p > Prec("float32") THEN p ELSE Prec("float32")
CondAt(a, int_part, wide) ==
    \/ FSub(a, int_part, wide) \notin {Half, Neg(Half)}
    \/ Trunc(int_part) % 2 # 0
Cond(a, p) == CondAt(a, IntPart(a), Wide(p))
RoundElem(a, p) ==
    IntNum(IF Cond(a, p)
           THEN Trunc(FAdd(a, IF ~Less(a, Zero) THEN Half ELSE Neg(Half), p))
           ELSE Trunc(RoundP(IntPart(a), p)))

\* The masked assignment result[~cond] = int_part[~cond] puts float32 values
\* into a tensor of img's dtype: the tensor library takes a source of another
\* dtype only when it has exactly one element (which it fills in as a scalar).
PutAccepted(img) ==
    IF img.kind = "float32" THEN TRUE
    ELSE Cardinality({i \in Idx : ~Cond(img.data[i], Prec(img.kind))}) = 1

\* round_opencv on a floating tensor.
round_opencv(img) ==
    IF PutAccepted(img)
    THEN Ok(Tensor("int32", LAMBDA i : RoundElem(img.data[i], Prec(img.kind))))
    ELSE Fail("RuntimeError")

\* from_float looking the maximum up by the kind of its argument.
from_float_by_source(img, dtype, max_value) ==
    IF max_value = None /\ img.kind \notin DOMAIN MAX_VALUES_BY_DTYPE
    THEN Fail("RuntimeError")
    ELSE LET mv == IF max_value = None THEN MAX_VALUES_BY_DTYPE[img.kind] ELSE max_value
         IN  Ok(Tensor(dtype, LAMBDA i :
                 Cast(FMul(img.data[i], IntNum(mv), Prec(img.kind)), dtype)))
from_float(img, dtype, max_value) ==
    IF max_value = None /\ dtype \notin DOMAIN MAX_VALUES_BY_DTYPE
    THEN Fail("RuntimeError")
    ELSE LET mv == IF max_value = None THEN MAX_VALUES_BY_DTYPE[dtype] ELSE max_value
         IN  Ok(Tensor(dtype, LAMBDA i :
                 Cast(FMul(img.data[i], IntNum(mv), Prec(img.kind)), dtype)))

\* to_float dividing a looked-up maximum plus one.
to_float_by_256(img, dtype, max_value) ==
    IF max_value = None /\ img.kind \notin DOMAIN MAX_VALUES_BY_DTYPE
    THEN Fail("RuntimeError")
    ELSE LET mv == IF max_value = None THEN MAX_VALUES_BY_DTYPE[img.kind] + 1
                   ELSE max_value
         IN  Ok(Tensor(dtype, LAMBDA i :
                 FDiv(Cast(img.data[i], dtype), mv, Prec(dtype))))
to_float(img, dtype, max_value) ==
    IF max_value = None /\ img.kind \notin DOMAIN MAX_VALUES_BY_DTYPE
    THEN Fail("RuntimeError")
    ELSE LET mv == IF max_value = None THEN MAX_VALUES_BY_DTYPE[img.kind] ELSE max_value
         IN  Ok(Tensor(dtype, LAMBDA i :
                 FDiv(Cast(img.data[i], dtype), mv, Prec(dtype))))

\* img[:, y1:y2, x1:x2] = fill_value, one hole after the other, on a clone.
\* InHoleClosed takes the ranges closed: [y1, y2] x [x1, x2].
InHoleClosed(i, h) == h[2] <= i[2] /\ i[2] <= h[4] /\ h[1] <= i[3] /\ i[3] <= h[3]
InHole(i, h) == h[2] <= i[2] /\ i[2] < h[4] /\ h[1] <= i[3] /\ i[3] < h[3]
RECURSIVE FillHoles(_, _, _)
FillHoles(data, holes, v) ==
    IF holes = <<>> THEN data
    ELSE FillHoles([i \in Idx |-> IF InHole(i, Head(holes)) THEN v ELSE data[i]],
                   Tail(holes), v)
cutout(img, holes, fill_value) ==
    [kind |-> img.kind,
     data |-> FillHoles(img.data, holes, Cast(IntNum(fill_value), img.kind))]

\* The RGB<->HLS primitives of the tensor library (K.rgb_to_hls, K.hls_to_rgb)
\* on the pixels this model passes them: an achromatic pixel r = g = b has
\* lightness (max + min) / 2, hue 0 and saturation 0, and a pixel of
\* saturation 0 is the grey of its lightness.
Px(data, c, i) == data[<<c, i[2], i[3]>>]
K_rgb_to_hls(data, p) ==
    [i \in Idx |->
        IF i[1] = 1
        THEN LET r == Px(data, 0, i)
                 g == Px(data, 1, i)
                 b == Px(data, 2, i)
                 maxc == MaxNum(r, MaxNum(g, b))
                 minc == MinNum(r, MinNum(g, b))
             IN  FDiv(FAdd(maxc, minc, p), 2, p)
        ELSE Zero]
K_hls_to_rgb(data, p) == [i \in Idx |-> Px(data, 1, i)]
Achromatic(img) ==
    \A i \in Idx : Px(img.data, 0, i) = img.data[i]
Unsaturated(img) ==
    \A i \in Idx : i[1] # 1 => img.data[i] = Zero

\* img[0] *= c for the constants built from pi: every hue here is 0.
ScaleHue(h) == Zero

\* The Python float 1.0 / 255.0, as the float32 scalar it is multiplied in as.
Inv255 == RoundP(FDiv(IntNum(1), 255, Prec("float64")), Prec("float32"))

_rbg_to_hls_float(img) ==
    LET hls == K_rgb_to_hls(img.data, Prec(img.kind))
    IN  Tensor(img.kind, LAMBDA i : IF i[1] = 0 THEN ScaleHue(hls[i]) ELSE hls[i])

\* _rbg_to_hls_uint8 under its decorator, last step first: round_opencv(img),
\* img[0] *= ... and img[1:] *= 255.0, K.rgb_to_hls, img.float() * (1.0 / 255.0).
rbg_to_hls_round(img) ==
    CASE img = img -> round_opencv(img).buf
rbg_to_hls_scale(hls) ==
    CASE hls = hls ->
        rbg_to_hls_round(Tensor("float32", LAMBDA i :
            IF i[1] = 0 THEN ScaleHue(hls[i])
            ELSE FMul(hls[i], IntNum(255), Prec("float32"))))
rbg_to_hls_convert(f) ==
    CASE f = f -> rbg_to_hls_scale(K_rgb_to_hls(f, Prec("float32")))
rbg_to_hls_uint8_body(img) ==
    rbg_to_hls_convert([i \in Idx |-> FMul(img.data[i], Inv255, Prec("float32"))])
_rbg_to_hls_uint8(img) == clipped(rbg_to_hls_uint8_body(img), img)

\* The dispatch without float64.
rgb_to_hls_float32_only(img) ==
    IF img.kind = "float32" THEN Ok(_rbg_to_hls_float(img))
    ELSE IF img.kind = "uint8" THEN Ok(_rbg_to_hls_uint8(img))
    ELSE Fail("ValueError")
rgb_to_hls(img) ==
    IF img.kind \in {"float32", "float64"} THEN Ok(_rbg_to_hls_float(img))
    ELSE IF img.kind = "uint8" THEN Ok(_rbg_to_hls_uint8(img))
    ELSE Fail("ValueError")

\* _hls_to_rgb_uint8 under its decorator, last step first: round_opencv(img),
\* img *= 255.0, K.hls_to_rgb, img[0] *= ... and img[1:] /= 255.0 on img.float().
hls_to_rgb_round(img) ==
    CASE img = img -> round_opencv(img).buf
hls_to_rgb_scale(rgb) ==
    CASE rgb = rgb ->
        hls_to_rgb_round(Tensor("float32", LAMBDA i :
            FMul(rgb[i], IntNum(255), Prec("float32"))))
hls_to_rgb_convert(f) ==
    CASE f = f -> hls_to_rgb_scale(K_hls_to_rgb(f, Prec("float32")))
hls_to_rgb_uint8_body(img) ==
    hls_to_rgb_convert([i \in Idx |-> IF i[1] = 0 THEN ScaleHue(img.data[i])
                                      ELSE FDiv(img.data[i], 255, Prec("float32"))])
_hls_to_rgb_uint8(img) == clipped(hls_to_rgb_uint8_body(img), img)

_hls_to_rgb_float(img) ==
    LET f == [i \in Idx |-> IF i[1] = 0 THEN ScaleHue(img.data[i]) ELSE img.data[i]]
    IN  [kind |-> img.kind, data |-> K_hls_to_rgb(f, Prec(img.kind))]

hls_to_rgb(img) ==
    IF img.kind \in {"float32", "float64"} THEN Ok(_hls_to_rgb_float(img))
    ELSE IF img.kind = "uint8" THEN Ok(_hls_to_rgb_uint8(img))
    ELSE Fail("ValueError")

\* Lightness below the snow point is multiplied by the coefficient, then the
\* channel is clipped to uint8.  The tensor is float32: the two Python floats
\* are taken as float32 scalars.
\* BleachAdd adds the coefficient where Bleach multiplies by it.
BleachAdd(l, snow_point, brightness_coeff) ==
    LET p == Prec("float32")
        m == IF Less(l, RoundP(snow_point, p))
             THEN FAdd(l, RoundP(brightness_coeff, p), p) ELSE l
    IN  ClipElem(m, "uint8", 255)
Bleach(l, snow_point, brightness_coeff) ==
    LET p == Prec("float32")
        m == IF Less(l, RoundP(snow_point, p))
             THEN FMul(l, RoundP(brightness_coeff, p), p) ELSE l
    IN  ClipElem(m, "uint8", 255)

\* The files add_snow writes with tofile().
SnowFiles == {"torch_hls_", "torch_hls_A"}

\* add_snow, last step first.  The result of a call is [err, buf, files].
\* to_float(image_RGB, torch.float32) when the argument was float32.
add_snow_return(image_RGB, needs_float) ==
    CASE image_RGB = image_RGB ->
        [err |-> "none",
         buf |-> IF needs_float THEN to_float(image_RGB, "float32", None).buf
                 ELSE image_RGB,
         files |-> SnowFiles]
\* hls_to_rgb(image_HLS), and the two files.
add_snow_back(image_HLS, needs_float) ==
    CASE image_HLS = image_HLS ->
        add_snow_return(hls_to_rgb(image_HLS).buf, needs_float)
\* The lightness channel bleached and clipped, the tensor cast to uint8.
add_snow_bleach(hls, snow_point, brightness_coeff, needs_float) ==
    CASE hls = hls /\ snow_point = snow_point ->
        add_snow_back(Tensor("uint8", LAMBDA i :
            Cast(IF i[1] = 1 THEN Bleach(hls.data[i], snow_point, brightness_coeff)
                 ELSE hls.data[i], "uint8")), needs_float)
\* rgb_to_hls(img) on the uint8 image.
add_snow_hls(img, snow_point, brightness_coeff, needs_float) ==
    CASE img = img ->
        add_snow_bleach(rgb_to_hls(img).buf, snow_point, brightness_coeff, needs_float)
add_snow(img, snow_point, brightness_coeff) ==
    LET d == Prec("float64")
    IN  IF img.kind \notin {"uint8", "float32"}
        THEN [err |-> "ValueError", buf |-> NoBuf, files |-> {}]
        ELSE add_snow_hls(IF img.kind = "float32"
                          THEN from_float(img, "uint8", None).buf ELSE img,
                          FAdd(FMul(snow_point, Dyadic(255, 1), d), IntNum(85), d),
                          brightness_coeff, img.kind = "float32")

\* mean and std are [dim, v]: a 0-dimensional tensor (dim = 0, one value) or a
\* per-channel vector (dim = 1); std holds whole numbers.  The result is the
\* tensor img.float(), which is img itself when img is float32, written in place.
PerChannel(t, i) == IF t.dim = 0 THEN t.v[1] ELSE t.v[i[1] + 1]
normalize(img, mean, std) ==
    LET p == Prec("float32")
        denominator(i) == FDiv(IntNum(1), PerChannel(std, i), p)
    IN  [buf  |-> Tensor("float32", LAMBDA i :
                     FMul(FSub(Cast(img.data[i], "float32"), PerChannel(mean, i), p),
                          denominator(i), p)),
         same |-> img.kind = "float32"]

----------------------------------------------------------------------------
(* The caller and its calls                                                *)

VARIABLES
    img,     \* the caller's image buffer
    mean,    \* the caller's mean buffer, as the last normalize call left it
    std,     \* the caller's std buffer, as the last normalize call left it
    orig,    \* the image as the caller made it
    out,     \* the buffer the last call returned, NoBuf if it raised
    ret,     \* "new": out is a buffer of its own; "same": out is the buffer
             \* that was passed in; "none": nothing was returned
    err,     \* the exception the last call raised, "none" if it returned
    files,   \* the files written so far
    calls    \* the calls that made out, oldest first: the first one was
             \* given img, every later one the buffer returned before it

vars == <<img, mean, std, orig, out, ret, err, files, calls>>

\* A behaviour is one chain of calls: the first on the caller's image, each
\* further one on the buffer the call before returned, MaxChain calls at most.
MaxChain == 2

Scalar(a) == [dim |-> 0, v |-> <<a>>]
Vector(a, b, c) == [dim |-> 1, v |-> <<a, b, c>>]

\* A call and its arguments; an argument the function does not take keeps
\* its value here.
Call(op) ==
    [op |-> op, dtype |-> "none", max_value |-> None, holes |-> <<>>,
     fill_value |-> 0, snow_point |-> Zero, brightness_coeff |-> Zero,
     mean |-> Scalar(Zero), std |-> Scalar(1)]

\* The images calls are made on: two pixel values laid out as a checkerboard,
\* "gray" with the three channels alike, "hls" with lightness alone (hue and
\* saturation 0), "rgb" with three different channels; "spot" is v2 all over
\* but for one element, v1.
Image(kind, shape, v1, v2) ==
    LET base(i) == IF (i[2] + i[3]) % 2 = 0 THEN v1 ELSE v2
        swap(i) == IF (i[2] + i[3]) % 2 = 0 THEN v2 ELSE v1
    IN  Tensor(kind, LAMBDA i :
            CASE shape = "gray" -> base(i)
              [] shape = "spot" -> IF i = <<0, 0, 0>> THEN v1 ELSE v2
              [] shape = "hls"  -> IF i[1] = 1 THEN base(i) ELSE Zero
              [] OTHER -> IF i[1] = 0 THEN base(i)
                          ELSE IF i[1] = 1 THEN swap(i) ELSE v1)

\* Pixel values of the images of Spec.
PixelVals(kind) ==
    IF kind \in FloatKinds THEN {Zero, Dyadic(1, 2), IntNum(1)}
    ELSE {IntNum(0), IntNum(100), IntNum(255)}

Start(image) ==
    /\ img = image
    /\ orig = image
    /\ mean = Scalar(Zero)
    /\ std = Scalar(1)
    /\ out = NoBuf
    /\ ret = "none"
    /\ err = "none"
    /\ files = {}
    /\ calls = <<>>

Init ==
    \E kind \in Kinds, shape \in {"gray", "hls", "rgb"} :
        \E v1 \in PixelVals(kind), v2 \in PixelVals(kind) :
            Start(Image(kind, shape, v1, v2))

\* The buffer a call is given: the caller's image, or the buffer the call
\* before returned.
CanPass(src) ==
    IF src = "img" THEN calls = <<>>
    ELSE out # NoBuf /\ Len(calls) < MaxChain
Arg(src) == IF src = "img" THEN img ELSE out
Made(src, c) == IF src = "img" THEN <<c>> ELSE Append(calls, c)

\* A call on Arg(src) that leaves every buffer alone and returns r ([err, buf]).
Pure(src, c, r) ==
    /\ out' = r.buf
    /\ err' = r.err
    /\ ret' = IF r.err = "none" THEN "new" ELSE "none"
    /\ calls' = Made(src, c)
    /\ UNCHANGED <<img, mean, std, orig, files>>

\* A float can be cast to an integer dtype when it is in the dtype's range.
Castable(a, dtype) ==
    IF dtype = "uint8" THEN ~Less(a, Zero) /\ Less(a, IntNum(256)) ELSE TRUE

ClipMax == {1, 255}
CallClip(src) ==
    /\ CanPass(src)
    /\ \E dtype \in Kinds, maxval \in ClipMax :
           Pure(src, [Call("clip") EXCEPT !.dtype = dtype, !.max_value = maxval],
                Ok(clip(Arg(src), dtype, maxval)))

CallRoundOpencv(src) ==
    /\ CanPass(src)
    /\ Arg(src).kind \in FloatKinds
    /\ Pure(src, Call("round_opencv"), round_opencv(Arg(src)))

\* The product from_float casts is in the range of the dtype it is cast to.
FromFloatCastable(buf, dtype, max_value) ==
    IF max_value = None /\ dtype \notin DOMAIN MAX_VALUES_BY_DTYPE THEN TRUE
    ELSE \A i \in Idx :
             Castable(FMul(buf.data[i],
                           IntNum(IF max_value = None
                                  THEN MAX_VALUES_BY_DTYPE[dtype] ELSE max_value),
                           Prec(buf.kind)), dtype)

MaxValues == {None, 2, 255}
CallFromFloat(src, dtypes, max_values) ==
    /\ CanPass(src)
    /\ Arg(src).kind \in FloatKinds
    /\ \E dtype \in dtypes, max_value \in max_values :
           IF FromFloatCastable(Arg(src), dtype, max_value)
           THEN Pure(src, [Call("from_float") EXCEPT !.dtype = dtype,
                                                     !.max_value = max_value],
                     from_float(Arg(src), dtype, max_value))
           ELSE FALSE

CallToFloat(src, max_values) ==
    /\ CanPass(src)
    /\ \E dtype \in FloatKinds, max_value \in max_values :
           Pure(src, [Call("to_float") EXCEPT !.dtype = dtype,
                                              !.max_value = max_value],
                to_float(Arg(src), dtype, max_value))

\* Holes inside the image, x1 < x2 and y1 < y2, and one empty hole.
Rects ==
    {h \in (0..Cols) \X (0..Rows) \X (0..Cols) \X (0..Rows) :
        h[1] < h[3] /\ h[2] < h[4]} \cup {<<1, 1, 1, 1>>}
FewHoles == {<<>>, <<<<0, 0, 1, 1>>>>, <<<<0, 0, Cols, 1>>, <<0, 0, 1, Rows>>>>}
AllHoles == {<<>>} \cup {<<h>> : h \in Rects} \cup {<<h, g>> : h \in Rects, g \in Rects}
FillValues == {0, 9}
\* A call on the buffer the call before returned repeats that call's holes.
CallCutout(src, lists) ==
    /\ CanPass(src)
    /\ \E holes \in lists, fill_value \in FillValues :
           LET c == [Call("cutout") EXCEPT !.holes = holes, !.fill_value = fill_value]
           IN  /\ IF src = "out" THEN calls[Len(calls)] = c ELSE TRUE
               /\ Pure(src, c, Ok(cutout(Arg(src), holes, fill_value)))

\* The colorspace functions are called on the images the primitives are
\* modelled on, and on every image they reject.
CallRgbToHls(src) ==
    /\ CanPass(src)
    /\ IF Arg(src).kind \in FloatKinds \cup {"uint8"} => Achromatic(Arg(src))
       THEN Pure(src, Call("rgb_to_hls"), rgb_to_hls(Arg(src)))
       ELSE FALSE

CallHlsToRgb(src) ==
    /\ CanPass(src)
    /\ IF Arg(src).kind \in FloatKinds \cup {"uint8"} => Unsaturated(Arg(src))
       THEN Pure(src, Call("hls_to_rgb"), hls_to_rgb(Arg(src)))
       ELSE FALSE

\* The Python float n / 10 as a tensor of the kind holds it.
Tenths(n, kind) == RoundP(FDiv(IntNum(n), 10, Prec("float64")), Prec(kind))

SnowPoints == {IntNum(-1), Dyadic(1, 1)}
Coeffs == {IntNum(1), Dyadic(5, 1), Tenths(13, "float64")}
SnowModelled(buf) ==
    /\ buf.kind \in {"uint8", "float32"} => Achromatic(buf)
    /\ buf.kind = "float32" => FromFloatCastable(buf, "uint8", None)
\* A call of add_snow that returned or raised r ([err, buf, files]).
Snowed(src, c, r) ==
    /\ out' = r.buf
    /\ err' = r.err
    /\ ret' = IF r.err = "none" THEN "new" ELSE "none"
    /\ files' = files \cup r.files
    /\ calls' = Made(src, c)
    /\ UNCHANGED <<img, mean, std, orig>>
CallAddSnow(src) ==
    /\ CanPass(src)
    /\ IF SnowModelled(Arg(src)) THEN TRUE ELSE FALSE
    /\ \E snow_point \in SnowPoints, brightness_coeff \in Coeffs :
           Snowed(src, [Call("add_snow") EXCEPT !.snow_point = snow_point,
                                               !.brightness_coeff = brightness_coeff],
                  add_snow(Arg(src), snow_point, brightness_coeff))

\* normalize returns img.float(): the caller's image itself, written in
\* place, when it is float32 already.
Means == {Scalar(Dyadic(1, 1)), Vector(Zero, Dyadic(1, 2), IntNum(1))}
Stds == {Scalar(1), Vector(1, 2, 4)}
\* A call of normalize that returned r ([buf, same]).
Normalized(c, r) ==
    /\ out' = r.buf
    /\ err' = "none"
    /\ ret' = IF r.same THEN "same" ELSE "new"
    /\ img' = IF r.same THEN r.buf ELSE img
    /\ mean' = c.mean
    /\ std' = c.std
    /\ calls' = <<c>>
    /\ UNCHANGED <<orig, files>>
CallNormalize ==
    /\ CanPass("img")
    /\ \E m \in Means, s \in Stds :
           Normalized([Call("normalize") EXCEPT !.mean = m, !.std = s],
                      normalize(img, m, s))

Next ==
    \/ CallClip("img")
    \/ CallRoundOpencv("img")
    \/ CallFromFloat("img", Kinds, MaxValues)
    \/ CallToFloat("img", MaxValues)
    \/ CallCutout("img", FewHoles)
    \/ CallRgbToHls("img")
    \/ CallHlsToRgb("img")
    \/ CallAddSnow("img")
    \/ CallNormalize

Spec == Init /\ [][Next]_vars

----------------------------------------------------------------------------
(* Rounding and clipping of values at and around the ties and the range    *)

\* The largest float of precision p below 0.5.
BelowHalf(p) == Mk(FALSE, 0, <<0>> \o [i \in 1..p |-> 1])
RoundVals(kind) ==
    {Zero, Dyadic(1, 2), Half, IntNum(1), Dyadic(3, 1), Dyadic(9, 2), Dyadic(5, 1),
     Dyadic(11, 2), Dyadic(7, 1), IntNum(10), IntNum(128), Dyadic(509, 1),
     IntNum(300), IntNum(8388609),
     Tenths(23, kind), Tenths(27, kind), BelowHalf(Prec(kind))}

InitRound ==
    \E kind \in FloatKinds : \E v \in RoundVals(kind) :
        \/ Start(Image(kind, "gray", v, Neg(v)))
        \/ \E w \in {v, Neg(v)} : Start(Image(kind, "spot", w, Dyadic(3, 1)))

NextRound ==
    \/ CallRoundOpencv("img")
    \/ CallClip("img")

SpecRound == InitRound /\ [][NextRound]_vars

----------------------------------------------------------------------------
(* uint8 images to float and back                                          *)

\* A uint8 image of consecutive values from 8 * base on, wrapping at 256.
Ramp(base) ==
    Tensor("uint8", LAMBDA i :
        IntNum((8 * base + (i[1] * Rows + i[2]) * Cols + i[3]) % 256))

InitRange == \E base \in 0..31 : Start(Ramp(base))

NextRange ==
    \/ CallToFloat("img", {None})
    \/ CallFromFloat("out", {"uint8"}, {None})

SpecRange == InitRange /\ [][NextRange]_vars

----------------------------------------------------------------------------
(* cutout with every list of up to two holes, and the same list again      *)

InitCutout ==
    \E image \in {Image("uint8", "rgb", IntNum(100), IntNum(255)),
                  Image("float32", "rgb", Dyadic(1, 2), IntNum(1)),
                  Image("int32", "gray", IntNum(-7), IntNum(7))} :
        Start(image)

NextCutout ==
    \/ CallCutout("img", AllHoles)
    \/ CallCutout("out", AllHoles)

SpecCutout == InitCutout /\ [][NextCutout]_vars
----------------------------------------------------------------------------
(* Properties                                                              *)

Registry == {"uint8", "float32", "float64"}

\* x - trunc(x), exactly.
FractPart(x) == AddExact(x, Neg(IntNum(Trunc(x))))
\* x is half way between two integers and its truncation is even.
EvenTie(x) ==
    /\ FractPart(x) \in {Half, Neg(Half)}
    /\ Trunc(x) % 2 = 0
\* trunc(x + 0.5) for x >= 0 and trunc(x - 0.5) for x < 0, exactly.
HalfAway(x) == Trunc(AddExact(x, IF x.neg THEN Neg(Half) ELSE Half))

\* Some hole of the list covers pixel i of every channel.
Covered(i, holes) ==
    \E k \in 1..Len(holes) :
        /\ holes[k][2] <= i[2] /\ i[2] < holes[k][4]
        /\ holes[k][1] <= i[3] /\ i[3] < holes[k][3]

Did(op) == calls # <<>> /\ calls[Len(calls)].op = op

\* C1: round_opencv returns, and maps every element that lies exactly half way
\* between two integers and whose truncation toward zero is even to that
\* truncation (2.5 -> 2, -2.5 -> -2, 0.5 -> 0).
C1_EvenTieToIntPart ==
    (Len(calls) = 1 /\ Did("round_opencv")) =>
        /\ err = "none"
        /\ \A i \in Idx :
               EvenTie(img.data[i]) => out.data[i] = IntNum(Trunc(img.data[i]))

\* C2: where round_opencv returns, it maps every other element x to
\* trunc(x + 0.5) when x >= 0 and to trunc(x - 0.5) when x < 0, so an odd tie
\* goes away from zero and an element that is no tie goes to the nearest integer.
C2_HalfAwayElsewhere ==
    (Len(calls) = 1 /\ Did("round_opencv") /\ err = "none") =>
        \A i \in Idx :
            ~EvenTie(img.data[i]) => out.data[i] = IntNum(HalfAway(img.data[i]))

\* C3: no call writes into a buffer of the caller, and the buffer a call
\* returns is not the buffer it was given.
C3_CallerBuffersKept ==
    /\ img = orig
    /\ ret # "same"
    /\ Did("normalize") => mean = calls[1].mean /\ std = calls[1].std

\* C4: cutout returns fill_value at every pixel some hole covers, in every
\* channel, and the value of its argument at every other pixel; cutting the
\* same holes out of the result again changes nothing.
C4_CutoutContent ==
    (calls # <<>> /\ \A k \in 1..Len(calls) : calls[k].op = "cutout") =>
        /\ err = "none"
        /\ out.kind = img.kind
        /\ \A i \in Idx :
               out.data[i] = IF Covered(i, calls[1].holes)
                             THEN IntNum(calls[1].fill_value)
                             ELSE img.data[i]
        /\ img = orig

C4_Witness ==
    /\ Len(calls) = 2 /\ Did("cutout")
    /\ calls[1].holes = <<<<0, 0, 2, 1>>, <<0, 0, 1, 2>>>>
    /\ calls[1].fill_value = 9
    /\ img.data[<<0, 0, 0>>] # IntNum(9)
    /\ out.data[<<0, 0, 0>>] = IntNum(9)
    /\ out.data[<<2, 1, 0>>] = IntNum(9)
    /\ out.data[<<1, 1, 1>>] = img.data[<<1, 1, 1>>]

\* C5: to_float and from_float raise the unknown-dtype error (RuntimeError)
\* exactly when max_value is omitted and the kind looked up (the argument's
\* kind for to_float, the target kind for from_float) is not registered; with a
\* max_value they return.
C5_UnknownDtype ==
    (Len(calls) = 1 /\ calls[1].op \in {"to_float", "from_float"}) =>
        LET c == calls[1]
            lookup == IF c.op = "to_float" THEN img.kind ELSE c.dtype
        IN  /\ err \in {"none", "RuntimeError"}
            /\ err = "RuntimeError" <=> (c.max_value = None /\ lookup \notin Registry)
            /\ err = "none" => out.kind = c.dtype
            /\ err # "none" => out = NoBuf

C5_Witness ==
    /\ Len(calls) = 1 /\ Did("from_float")
    /\ img.kind = "float32"
    /\ calls[1].dtype = "int32"
    /\ calls[1].max_value = None
    /\ err = "RuntimeError"

\* C6: rgb_to_hls and hls_to_rgb raise the unsupported-dtype error (ValueError)
\* exactly when the argument is not uint8, float32 or float64, add_snow exactly
\* when it is not uint8 or float32; a call that raises returns nothing.
C6_UnsupportedDtype ==
    (Len(calls) = 1 /\ calls[1].op \in {"rgb_to_hls", "hls_to_rgb", "add_snow"}) =>
        LET accepted == IF calls[1].op = "add_snow" THEN {"uint8", "float32"}
                        ELSE {"uint8", "float32", "float64"}
        IN  /\ err \in {"none", "ValueError"}
            /\ err = "ValueError" <=> img.kind \notin accepted
            /\ err = "none" => out.kind = img.kind /\ ret = "new"
            /\ err # "none" => out = NoBuf /\ ret = "none"

C6_Witness ==
    /\ Len(calls) = 1 /\ Did("add_snow")
    /\ img.kind = "float64"
    /\ err = "ValueError"
    /\ out = NoBuf

\* C7: from_float(to_float(img, float kind), uint8) is img for every uint8
\* image, the maximum 255 taken from the registry both ways.
C7_RangeRoundTrip ==
    (/\ Len(calls) = 2
     /\ calls[1].op = "to_float" /\ calls[1].max_value = None
     /\ calls[2].op = "from_float" /\ calls[2].max_value = None
     /\ calls[2].dtype = "uint8"
     /\ img.kind = "uint8") =>
        err = "none" /\ out = img

C7_Witness ==
    /\ Len(calls) = 2 /\ Did("from_float")
    /\ calls[1].op = "to_float" /\ calls[1].dtype = "float32"
    /\ img.data[<<0, 0, 0>>] = IntNum(248)
    /\ \E i \in Idx : img.data[i] = IntNum(255)
    /\ out = img

\* C8: clip returns min(max(x, 0), max_value) cast to the target kind for
\* every element x, so every element of the result is in [0, max_value]; it
\* does not raise.
C8_ClipRange ==
    (Len(calls) = 1 /\ Did("clip")) =>
        LET hi == IntNum(calls[1].max_value)
        IN  /\ err = "none"
            /\ out.kind = calls[1].dtype
            /\ \A i \in Idx :
                   LET x == img.data[i]
                       m == IF Less(x, Zero) THEN Zero
                            ELSE IF Less(hi, x) THEN hi ELSE x
                   IN  /\ out.data[i] = Cast(m, calls[1].dtype)
                       /\ ~Less(out.data[i], Zero)
                       /\ ~Less(hi, out.data[i])

C8_Witness ==
    /\ Len(calls) = 1 /\ Did("clip")
    /\ calls[1].dtype = "uint8" /\ calls[1].max_value = 255
    /\ img.data[<<0, 0, 0>>] = IntNum(300)
    /\ img.data[<<0, 0, 1>>] = IntNum(-300)
    /\ out.data[<<0, 0, 0>>] = IntNum(255)
    /\ out.data[<<0, 0, 1>>] = Zero

\* C9: no call creates or writes a file.
C9_NoFileWritten == files = {}

\* C10: add_snow with brightness_coeff 1.0 returns an all-black uint8 image as
\* it was given, whatever the snow point.
C10_BlackFixedPoint ==
    (/\ Len(calls) = 1 /\ Did("add_snow")
     /\ img.kind = "uint8"
     /\ \A i \in Idx : img.data[i] = Zero
     /\ calls[1].brightness_coeff = IntNum(1)) =>
        err = "none" /\ out = img

C10_Witness ==
    /\ Len(calls) = 1 /\ Did("add_snow")
    /\ img.kind = "uint8"
    /\ \A i \in Idx : img.data[i] = Zero
    /\ calls[1].brightness_coeff = IntNum(1)
    /\ calls[1].snow_point = Dyadic(1, 1)
    /\ out = img
====
